---- MODULE Spec2Model ----
(***************************************************************************)
(* A model of the ELT pipeline of apex-ml: the warehouse upsert engine     *)
(* (snowflake/elt/load.py), the source fetcher (snowflake/elt/extract.py)  *)
(* and the pipeline orchestrators (load_new_data.py, load_by_year.py,      *)
(* load_historical.py, refresh_latest.py), with the connection manager     *)
(* (library/connection.py), the query builder (app/query_builder.py) and   *)
(* the error handling helpers (library/error_handling.py).                 *)
(*                                                                         *)
(* Values are integers.  A Python dict is a function whose DOMAIN is the   *)
(* set of keys the dict holds; Python's None and SQL's NULL are the value  *)
(* None.  A warehouse table is the sequence of its rows.                   *)
(***************************************************************************)
EXTENDS Integers, Sequences, FiniteSets, TLC

VARIABLES
    tables,       \* APEXML_DEV.RAW: [SESSIONS, DRIVERS, LAPS, POSITIONS |-> rows]
    call,         \* the last call made directly on the upsert engine
    nloads,       \* number of calls made directly on the upsert engine
    lastApplied,  \* history: per table, natural key |-> last source row merged
    environment,  \* settings.environment: "dev", "staging" or "prod"
    now,          \* the wall clock read by datetime.utcnow()
    run,          \* the orchestrator run in progress (its local variables)
    nruns,        \* number of orchestrator runs started
    trace,        \* history of the current run: what it called and what raised
    prev,         \* history: how the previous run ended
    ex,           \* the extract_session_data call in progress
    pool,         \* the SnowflakeConnectionManager and the connections it created
    callers,      \* the threads using connection_manager.get_connection()
    qb,           \* the last call of F1QueryBuilder.build_analytics_query
    fmt,          \* the last call of format_user_error
    rt            \* the call in progress of a function wrapped by retry(...)

vars == <<tables, call, nloads, lastApplied, environment, now, run, nruns, trace, prev,
          ex, pool, callers, qb, fmt, rt>>

engineVars == <<call, nloads, lastApplied>>
orchVars == <<environment, now, run, nruns, trace, prev>>
fetchVars == <<ex>>
\* The subsystems that neither the engine calls nor the orchestrator runs touch.
poolVars == <<pool, callers>>
queryVars == <<qb>>
errorVars == <<fmt, rt>>
sideVars == <<fetchVars, poolVars, queryVars, errorVars>>

(***************************************************************************)
(* Bounds of the model.                                                    *)
(***************************************************************************)
MaxBatch == 2      \* longest record list handed to one loader call
MaxLoads == 2      \* direct calls on the upsert engine in one behaviour
MaxTime == 2       \* ingestion timestamps carried by the records handed in
NumSessions == 3   \* sessions listed by the upstream API
MaxRuns == 2       \* consecutive runs of one orchestrator
MaxClock == 2      \* ticks of the wall clock during one extract_session_data
PoolSize == 1      \* pool_size of the connection manager
MaxList == 2       \* longest metric, dimension or filter list of a query
MaxValueLen == 2   \* longest filter value, in characters
MaxConns == 2      \* connections the manager creates in one behaviour
MaxMessageLen == 2 \* longest message of an exception, in words
MaxAttempts == 3   \* largest max_attempts given to retry

(***************************************************************************)
(* Python and SQL values.                                                  *)
(***************************************************************************)
None == -1

\* dict.get(key): the value, or None when the dict lacks the key.
Get(d, k) == IF k \in DOMAIN d THEN d[k] ELSE None

\* The dict d without key k.
Without(d, k) == [f \in DOMAIN d \ {k} |-> d[f]]

\* SQL "a = b" is true only when both sides are non-NULL and equal.
SqlEq(a, b) == a # None /\ b # None /\ a = b

Min(a, b) == IF a < b THEN a ELSE b

TableNames == {"SESSIONS", "DRIVERS", "LAPS", "POSITIONS"}

(***************************************************************************)
(* The four MERGE statements of load.py.  Params are the named pyformat    *)
(* placeholders of the statement, On the columns of its ON clause, Set the *)
(* columns of its UPDATE SET clause.                                       *)
(***************************************************************************)
SessionParams == {"session_key", "session_name", "session_type", "date_start",
                  "date_end", "gmt_offset", "location", "country_name",
                  "circuit_short_name", "year", "ingested_at"}
SessionOn == {"session_key"}
SessionSet == SessionParams \ SessionOn

DriverParams == {"driver_number", "session_key", "broadcast_name", "full_name",
                 "name_acronym", "team_name", "team_colour", "headshot_url",
                 "country_code", "ingested_at"}
DriverOn == {"driver_number", "session_key"}
DriverSet == DriverParams \ DriverOn

LapParams == {"session_key", "driver_number", "lap_number", "lap_duration",
              "duration_sector_1", "duration_sector_2", "duration_sector_3",
              "is_pit_out_lap", "date_start", "ingested_at"}
LapColumns == {"session_key", "driver_number", "lap_number", "lap_duration",
               "segment_1_duration", "segment_2_duration", "segment_3_duration",
               "is_pit_out_lap", "date_start", "ingested_at"}
LapOn == {"session_key", "driver_number", "lap_number"}
LapSet == LapColumns \ LapOn

PositionParams == {"session_key", "driver_number", "date", "position", "ingested_at"}
PositionOn == {"session_key", "driver_number", "date"}
PositionSet == PositionParams \ PositionOn

\* The natural key columns of each table, in the order the spec names them.
KeyColumns(t) ==
    CASE t = "SESSIONS" -> <<"session_key">>
      [] t = "DRIVERS" -> <<"driver_number", "session_key">>
      [] t = "LAPS" -> <<"session_key", "driver_number", "lap_number">>
      [] t = "POSITIONS" -> <<"session_key", "driver_number", "date">>

NaturalKey(t, row) == [i \in 1..Len(KeyColumns(t)) |-> row[KeyColumns(t)[i]]]

\* lap_params / position_params: every value is read with dict.get.
lap_params(lap) == [p \in LapParams |-> Get(lap, p)]
position_params(position) == [p \in PositionParams |-> Get(position, p)]

\* The USING (SELECT ...) row of each statement.
SessionSource(params) == [c \in SessionParams |-> params[c]]
DriverSource(params) == [c \in DriverParams |-> params[c]]
LapSource(params) ==
    [c \in LapColumns |->
        CASE c = "segment_1_duration" -> params["duration_sector_1"]
          [] c = "segment_2_duration" -> params["duration_sector_2"]
          [] c = "segment_3_duration" -> params["duration_sector_3"]
          [] OTHER -> params[c]]
PositionSource(params) == [c \in PositionParams |-> params[c]]

Matched(target, source, on) == \A c \in on : SqlEq(target[c], source[c])

\* MERGE INTO T USING source ON on WHEN MATCHED THEN UPDATE SET set
\* WHEN NOT MATCHED THEN INSERT: one statement, applied atomically.
Merge(T, source, on, set) ==
    IF \E i \in 1..Len(T) : Matched(T[i], source, on)
    THEN [i \in 1..Len(T) |->
            IF Matched(T[i], source, on)
            THEN [c \in DOMAIN T[i] |-> IF c \in set THEN source[c] ELSE T[i][c]]
            ELSE T[i]]
    ELSE Append(T, source)

\* cursor.execute(sql, params) binds the named placeholders on the client:
\* a dict that lacks one of them raises before anything reaches the warehouse.
Binds(t, rec) ==
    CASE t = "SESSIONS" -> SessionParams \subseteq DOMAIN rec
      [] t = "DRIVERS" -> DriverParams \subseteq DOMAIN rec
      [] t = "LAPS" -> TRUE
      [] t = "POSITIONS" -> TRUE

\* The source row the statement of table t builds from one record.
SourceRow(t, rec) ==
    CASE t = "SESSIONS" -> SessionSource(rec)
      [] t = "DRIVERS" -> DriverSource(rec)
      [] t = "LAPS" -> LapSource(lap_params(rec))
      [] t = "POSITIONS" -> PositionSource(position_params(rec))

\* One cursor.execute of the loader of table t.
Execute(t, T, rec) ==
    CASE t = "SESSIONS" -> Merge(T, SourceRow(t, rec), SessionOn, SessionSet)
      [] t = "DRIVERS" -> Merge(T, SourceRow(t, rec), DriverOn, DriverSet)
      [] t = "LAPS" -> Merge(T, SourceRow(t, rec), LapOn, LapSet)
      [] t = "POSITIONS" -> Merge(T, SourceRow(t, rec), PositionOn, PositionSet)

\* The connection is opened without an autocommit argument, so the session
\* runs with AUTOCOMMIT on: every statement is committed when it completes
\* and the conn.commit() after the loop finds nothing left to commit.
Autocommit == TRUE

RECURSIVE ExecuteFirst(_, _, _, _)
\* The table after the first n records of recs went through cursor.execute.
ExecuteFirst(t, T, recs, n) ==
    IF n = 0 THEN T ELSE Execute(t, ExecuteFirst(t, T, recs, n - 1), recs[n])

\* Index of the first record of recs that cannot be bound, Len(recs)+1 if none.
FirstUnbound(t, recs) ==
    LET bad == {i \in 1..Len(recs) : ~Binds(t, recs[i])}
    IN IF bad = {} THEN Len(recs) + 1 ELSE CHOOSE i \in bad : \A j \in bad : i <= j

\* The loop of a loader over recs, the warehouse failing the fault-th
\* statement it receives (fault = 0: the warehouse fails none).  The result
\* holds the table afterwards, the value of count, and what was raised.
Loader(t, T, recs, fault) ==
    LET unbound == FirstUnbound(t, recs)
        failing == IF fault = 0 THEN Len(recs) + 1 ELSE fault
        stop == Min(unbound, failing)
        done == stop - 1
        raised == IF stop > Len(recs) THEN "none"
                  ELSE IF unbound <= failing THEN "KeyError" ELSE "ProgrammingError"
    IN [table |-> IF raised = "none" \/ Autocommit
                  THEN ExecuteFirst(t, T, recs, done) ELSE T,
        count |-> done,
        raised |-> raised]

load_sessions(T, sessions, fault) == Loader("SESSIONS", T, sessions, fault)
load_drivers(T, drivers, fault) == Loader("DRIVERS", T, drivers, fault)
load_laps(T, laps, fault) == Loader("LAPS", T, laps, fault)
load_positions(T, positions, fault) == Loader("POSITIONS", T, positions, fault)

(***************************************************************************)
(* load_all: connect, resume the warehouse, run the four loaders in order, *)
(* close the connection.  A fault names the one step the environment       *)
(* fails: the connect, the resume statement, or the k-th statement the     *)
(* loader of table `at` sends.                                             *)
(***************************************************************************)
NoFault == [at |-> "none", k |-> 0]

FaultOf(fault, t) == IF fault.at = t THEN fault.k ELSE 0

NoCounts == [t \in TableNames |-> 0]

\* A load_all that closes the connection only when nothing was raised.
CloseOnSuccess(r) == [r EXCEPT !.closed = r.opened /\ r.raised = "none"]

\* finally: conn.close()
Finally(r) == [r EXCEPT !.closed = r.opened]

load_all(tabs, data, fault) ==
    IF fault.at = "connect"
    THEN [tables |-> tabs, raised |-> "OperationalError", counts |-> NoCounts,
          opened |-> FALSE, closed |-> FALSE]
    ELSE Finally(
      IF fault.at = "resume"
      THEN [tables |-> tabs, raised |-> "ProgrammingError", counts |-> NoCounts,
          opened |-> TRUE, closed |-> FALSE]
    ELSE
      LET s == load_sessions(tabs.SESSIONS, data.sessions, FaultOf(fault, "SESSIONS"))
          d == load_drivers(tabs.DRIVERS, data.drivers, FaultOf(fault, "DRIVERS"))
          l == load_laps(tabs.LAPS, data.laps, FaultOf(fault, "LAPS"))
          p == load_positions(tabs.POSITIONS, data.positions, FaultOf(fault, "POSITIONS"))
          t1 == [tabs EXCEPT !.SESSIONS = s.table]
          t2 == [t1 EXCEPT !.DRIVERS = d.table]
          t3 == [t2 EXCEPT !.LAPS = l.table]
          t4 == [t3 EXCEPT !.POSITIONS = p.table]
          c1 == [NoCounts EXCEPT !.SESSIONS = s.count]
          c2 == [c1 EXCEPT !.DRIVERS = d.count]
          c3 == [c2 EXCEPT !.LAPS = l.count]
          c4 == [c3 EXCEPT !.POSITIONS = p.count]
      IN IF s.raised # "none"
         THEN [tables |-> t1, raised |-> s.raised, counts |-> c1,
               opened |-> TRUE, closed |-> FALSE]
         ELSE IF d.raised # "none"
         THEN [tables |-> t2, raised |-> d.raised, counts |-> c2,
               opened |-> TRUE, closed |-> FALSE]
         ELSE IF l.raised # "none"
         THEN [tables |-> t3, raised |-> l.raised, counts |-> c3,
               opened |-> TRUE, closed |-> FALSE]
         ELSE [tables |-> t4, raised |-> p.raised, counts |-> c4,
               opened |-> TRUE, closed |-> FALSE])

(***************************************************************************)
(* The records the upstream API returns, and extract_session_data.         *)
(* A record of version v carries v in every attribute that is not part of  *)
(* the natural key.                                                        *)
(***************************************************************************)
SessionRecord(session_key, v) ==
    [session_key |-> session_key, session_name |-> v, session_type |-> v,
     date_start |-> v, date_end |-> v, gmt_offset |-> v, location |-> v,
     country_name |-> v, circuit_short_name |-> v, year |-> v]

DriverRecord(driver_number, session_key, v) ==
    [driver_number |-> driver_number, session_key |-> session_key,
     broadcast_name |-> v, full_name |-> v, name_acronym |-> v, team_name |-> v,
     team_colour |-> v, headshot_url |-> v, country_code |-> v]

LapRecord(session_key, driver_number, lap_number, v) ==
    [session_key |-> session_key, driver_number |-> driver_number,
     lap_number |-> lap_number, lap_duration |-> v, duration_sector_1 |-> v,
     duration_sector_2 |-> v, duration_sector_3 |-> v, is_pit_out_lap |-> v,
     date_start |-> v]

PositionRecord(session_key, driver_number, date, v) ==
    [session_key |-> session_key, driver_number |-> driver_number,
     date |-> date, position |-> v]

\* record["ingested_at"] = datetime.utcnow().isoformat()
Stamp(record, t) == [f \in DOMAIN record \cup {"ingested_at"} |->
                        IF f = "ingested_at" THEN t ELSE record[f]]

StampAll(records, t) == [i \in 1..Len(records) |-> Stamp(records[i], t)]

\* The bundle extract_session_data returns from the four fetched lists.
Bundle(sessions, drivers, laps, positions, t) ==
    [sessions |-> StampAll(sessions, t), drivers |-> StampAll(drivers, t),
     laps |-> StampAll(laps, t), positions |-> StampAll(positions, t)]

(***************************************************************************)
(* Inputs of the calls made directly on the upsert engine.  The natural    *)
(* key of a record is complete, or one of its fields is None, or the       *)
(* record lacks that field.                                                *)
(***************************************************************************)
KeyValues == {1, None}

Versions == 1..MaxTime

\* The key field that the input records of table t vary.
VariedField(t) ==
    CASE t = "SESSIONS" -> "session_key"
      [] t = "DRIVERS" -> "driver_number"
      [] t = "LAPS" -> "lap_number"
      [] t = "POSITIONS" -> "date"

RawRecord(t, k, v) ==
    CASE t = "SESSIONS" -> SessionRecord(k, v)
      [] t = "DRIVERS" -> DriverRecord(k, 1, v)
      [] t = "LAPS" -> LapRecord(1, 1, k, v)
      [] t = "POSITIONS" -> PositionRecord(1, 1, k, v)

InputRecords(t) ==
    {Stamp(RawRecord(t, k, v), v) : k \in KeyValues, v \in Versions}
    \cup {Without(Stamp(RawRecord(t, 1, v), v), VariedField(t)) : v \in Versions}

Lists(S) == UNION {[1..n -> S] : n \in 0..MaxBatch}

\* Fetched bundles of one record per collection, all of one version.
InputBundles ==
    {Bundle(<<RawRecord("SESSIONS", kS, v)>>, <<RawRecord("DRIVERS", kD, v)>>,
            <<RawRecord("LAPS", kL, v)>>, <<RawRecord("POSITIONS", kP, v)>>, v) :
        kS \in KeyValues, kD \in KeyValues, kL \in KeyValues, kP \in KeyValues,
        v \in Versions}

LoadFaults == {NoFault, [at |-> "connect", k |-> 0], [at |-> "resume", k |-> 0]}
              \cup {[at |-> t, k |-> 1] : t \in TableNames}

RECURSIVE Remember(_, _, _, _)
\* lastApplied of table t after the first n records of recs were merged.
Remember(t, m, recs, n) ==
    IF n = 0 THEN m
    ELSE LET src == SourceRow(t, recs[n])
         IN (NaturalKey(t, src) :> src) @@ Remember(t, m, recs, n - 1)

TableOf(fn) ==
    CASE fn = "load_sessions" -> "SESSIONS"
      [] fn = "load_drivers" -> "DRIVERS"
      [] fn = "load_laps" -> "LAPS"
      [] fn = "load_positions" -> "POSITIONS"

EmptyTables == [t \in TableNames |-> <<>>]

NoCall == [fn |-> "none", data |-> <<>>, count |-> 0, raised |-> "none", at |-> "none",
           lacking |-> 0]

\* Index of the first record of recs that lacks a field of the natural key
\* of table t, 0 when every record holds them all.
FirstLacking(t, recs) ==
    LET bad == {i \in 1..Len(recs) :
                   \E j \in 1..Len(KeyColumns(t)) : KeyColumns(t)[j] \notin DOMAIN recs[i]}
    IN IF bad = {} THEN 0 ELSE CHOOSE i \in bad : \A j \in bad : i <= j

EngineInit ==
    /\ tables = EmptyTables
    /\ call = NoCall
    /\ nloads = 0
    /\ lastApplied = [t \in TableNames |-> <<>>]

\* A direct call of one loader with a record list, the warehouse failing
\* statement `fault` (0: none).
CallLoader(fn, recs, fault) ==
    LET t == TableOf(fn)
        r == Loader(t, tables[t], recs, fault)
    IN /\ nloads < MaxLoads
       /\ tables' = [tables EXCEPT ![t] = r.table]
       /\ call' = [fn |-> fn, data |-> <<>>, count |-> r.count, raised |-> r.raised, at |-> t,
                   lacking |-> FirstLacking(t, recs)]
       /\ nloads' = nloads + 1
       /\ lastApplied' = [lastApplied EXCEPT ![t] = Remember(t, @, recs, r.count)]

CallLoadSessions ==
    \E recs \in Lists(InputRecords("SESSIONS")) : \E fault \in 0..Len(recs) :
        CallLoader("load_sessions", recs, fault)

CallLoadDrivers ==
    \E recs \in Lists(InputRecords("DRIVERS")) : \E fault \in 0..Len(recs) :
        CallLoader("load_drivers", recs, fault)

CallLoadLaps ==
    \E recs \in Lists(InputRecords("LAPS")) : \E fault \in 0..Len(recs) :
        CallLoader("load_laps", recs, fault)

CallLoadPositions ==
    \E recs \in Lists(InputRecords("POSITIONS")) : \E fault \in 0..Len(recs) :
        CallLoader("load_positions", recs, fault)

CallLoadAll ==
    \E data \in InputBundles : \E fault \in LoadFaults :
        LET r == load_all(tables, data, fault)
        IN /\ nloads < MaxLoads
           /\ tables' = r.tables
           /\ call' = [fn |-> "load_all", data |-> data, count |-> 0,
                       raised |-> r.raised, at |-> fault.at, lacking |-> 0]
           /\ nloads' = nloads + 1
           /\ lastApplied' =
                [SESSIONS |-> Remember("SESSIONS", lastApplied.SESSIONS, data.sessions, r.counts.SESSIONS),
                 DRIVERS |-> Remember("DRIVERS", lastApplied.DRIVERS, data.drivers, r.counts.DRIVERS),
                 LAPS |-> Remember("LAPS", lastApplied.LAPS, data.laps, r.counts.LAPS),
                 POSITIONS |-> Remember("POSITIONS", lastApplied.POSITIONS, data.positions, r.counts.POSITIONS)]

(***************************************************************************)
(* The upstream API and the source fetcher.                                *)
(***************************************************************************)
SessionKeys == 1..NumSessions

\* The session object the API serves for session s; sessions start and end
\* in the order of their keys.
UpstreamSession(s) == [SessionRecord(s, 1) EXCEPT !.date_start = s, !.date_end = s]

\* GET /sessions: the API lists the latest session first.
ApiListing == [i \in 1..NumSessions |-> UpstreamSession(NumSessions + 1 - i)]

\* The bundle extract_session_data(session_key) returns when all four
\* sub-fetches succeed and the clock reads t at every stamping; the steps of
\* the call, failures and clock ticks included, are StartExtract..Tick below.
extract_session_data(session_key, t) ==
    Bundle(<<UpstreamSession(session_key)>>,
           <<DriverRecord(1, session_key, 1)>>,
           <<LapRecord(session_key, 1, 1, 1), LapRecord(session_key, 1, 2, 1)>>,
           <<PositionRecord(session_key, 1, 1, 1)>>, t)

RECURSIVE Less(_, _, _)
\* Python's order of the key tuples (x[f] for f in fields).
Less(x, y, fields) ==
    IF fields = <<>> THEN FALSE
    ELSE \/ Get(x, Head(fields)) < Get(y, Head(fields))
         \/ /\ Get(x, Head(fields)) = Get(y, Head(fields))
            /\ Less(x, y, Tail(fields))

RECURSIVE Insert(_, _, _)
\* list.sort(key=...) is a stable sort: Insert puts x behind the elements of
\* the sorted list s whose key is not greater.
Insert(s, x, fields) ==
    IF s = <<>> THEN <<x>>
    ELSE IF Less(x, Head(s), fields) THEN <<x>> \o s
    ELSE <<Head(s)>> \o Insert(Tail(s), x, fields)

RECURSIVE SortedBy(_, _)
SortedBy(s, fields) ==
    IF s = <<>> THEN <<>>
    ELSE Insert(SortedBy(SubSeq(s, 1, Len(s) - 1), fields), s[Len(s)], fields)

\* get_recent_race_sessions / get_race_sessions_by_year: sorted by session_key.
get_recent_race_sessions == SortedBy(ApiListing, <<"session_key">>)
get_race_sessions_by_year == SortedBy(ApiListing, <<"session_key">>)
\* filtered_sessions of load_historical_data: sorted by (year, date_start).
filtered_sessions == SortedBy(ApiListing, <<"year", "date_start">>)

(***************************************************************************)
(* Settings and the change-set resolver.                                   *)
(***************************************************************************)
Environments == {"dev", "staging", "prod"}

\* Settings.set_environment_defaults
snowflake_database(env) ==
    CASE env = "dev" -> "APEXML_DEV"
      [] env = "staging" -> "APEXML_STAGING"
      [] env = "prod" -> "APEXML_PROD"

\* SELECT DISTINCT session_key FROM <database>.RAW.SESSIONS.  The MERGE
\* statements name APEXML_DEV; nothing writes the tables of the other
\* databases.
SessionKeysIn(database) ==
    IF database = "APEXML_DEV"
    THEN {tables.SESSIONS[i].session_key : i \in 1..Len(tables.SESSIONS)}
    ELSE {}

\* get_loaded_session_keys of load_new_data.py and of load_by_year.py
loaded_keys_new == SessionKeysIn(snowflake_database(environment))
loaded_keys_year == SessionKeysIn("APEXML_DEV")

RECURSIVE NotLoaded(_, _)
\* [s for s in sessions if s['session_key'] not in loaded_keys]
NotLoaded(sessions, loaded_keys) ==
    IF sessions = <<>> THEN <<>>
    ELSE IF Head(sessions).session_key \notin loaded_keys
         THEN <<Head(sessions)>> \o NotLoaded(Tail(sessions), loaded_keys)
         ELSE NotLoaded(Tail(sessions), loaded_keys)

\* A resolver that selects every session whatever the warehouse holds.
ResolveEverything(sessions, loaded_keys, force_reload) == sessions

\* The sessions selected for loading.
Resolve(sessions, loaded_keys, force_reload) ==
    IF force_reload THEN sessions ELSE NotLoaded(sessions, loaded_keys)

(***************************************************************************)
(* The orchestrators.  run holds the local variables of the run:           *)
(*   variant          the orchestrator                                     *)
(*   sessions         the upstream list (recent_sessions, year_sessions,   *)
(*                    filtered_sessions)                                   *)
(*   loaded_keys      what get_loaded_session_keys returned                *)
(*   to_load          new_sessions / sessions_to_load / filtered_sessions  *)
(*   i                the loop index                                       *)
(*   succeeded        loaded_count / success_count / successful            *)
(*   error_count      error_count / failed                                 *)
(*   failed_sessions  the list of failures (no such list in load_by_year)  *)
(***************************************************************************)
Variants == {"load_new_data", "load_year_data", "load_historical_data"}

IdleRun == [pc |-> "idle", variant |-> "none", force_reload |-> FALSE,
            sessions |-> <<>>, loaded_keys |-> {}, to_load |-> <<>>, i |-> 0,
            succeeded |-> 0, error_count |-> 0, failed_sessions |-> <<>>]

NoTrace == [processed |-> <<>>, raised |-> <<>>, extracts |-> 0, loads |-> 0,
            connect_failed |-> FALSE, open |-> 0]

NoPrev == [variant |-> "none", force_reload |-> FALSE, raised |-> {},
           succeeded |-> {}, complete |-> FALSE, rows |-> NoCounts]

\* The faults one loop iteration may meet: the fetch fails, the connect
\* fails, the resume statement fails, the warehouse fails the second MERGE
\* of load_laps.
RunFaults == {NoFault, [at |-> "extract", k |-> 0], [at |-> "connect", k |-> 0],
              [at |-> "resume", k |-> 0], [at |-> "LAPS", k |-> 2]}

\* The run entering its loop over to_load, or returning when it is empty.
EnterLoop(r) ==
    IF r.to_load = <<>> THEN [r EXCEPT !.pc = "returned"]
    ELSE [r EXCEPT !.pc = "loop", !.i = 1]

\* The next iteration of the loop, or the summary after the last one.
NextIteration(r) ==
    IF r.i < Len(r.to_load) THEN [r EXCEPT !.i = r.i + 1]
    ELSE [r EXCEPT !.i = r.i + 1, !.pc = "summary"]

\* The end of the try block of one iteration.
OnSessionSuccess(r) == NextIteration([r EXCEPT !.succeeded = @ + 1])

\* An except clause that lets the error end the run.
OnSessionErrorReraise(r, session_key, error) == [r EXCEPT !.pc = "raised"]

\* The except clause of one iteration.
OnSessionError(r, session_key, error) ==
    CASE r.variant = "load_new_data" ->
           NextIteration([r EXCEPT !.failed_sessions =
               Append(@, [session_key |-> session_key, error |-> error])])
      [] r.variant = "load_year_data" ->
           NextIteration([r EXCEPT !.error_count = @ + 1])
      [] r.variant = "load_historical_data" ->
           NextIteration([r EXCEPT !.error_count = @ + 1, !.failed_sessions =
               Append(@, [session_key |-> session_key, error |-> error])])

\* A run starts only on an idle process; a rerun is of the same orchestrator.
CanStart(variant, force_reload) ==
    /\ run.pc = "idle"
    /\ prev.variant \in {"none", variant}
    /\ prev.variant = variant => prev.force_reload = force_reload

Started(r) ==
    /\ run' = r
    /\ nruns' = nruns + 1
    /\ trace' = NoTrace
    /\ UNCHANGED <<tables, environment, now, prev>>

\* load_new_data up to its loop.  `fault` is the step that raises: the
\* listing request, the read of the loaded keys, or none.
StartNewData ==
    /\ CanStart("load_new_data", FALSE)
    /\ \E fault \in {"none", "list", "read"} :
        LET r0 == [IdleRun EXCEPT !.variant = "load_new_data"]
            r1 == [r0 EXCEPT !.sessions = get_recent_race_sessions]
            r2 == [r1 EXCEPT !.loaded_keys = loaded_keys_new]
            r3 == [r2 EXCEPT !.to_load = Resolve(r2.sessions, r2.loaded_keys, FALSE)]
        IN Started(CASE fault = "list" -> [r0 EXCEPT !.pc = "raised"]
                     [] fault = "read" -> [r1 EXCEPT !.pc = "raised"]
                     [] OTHER -> EnterLoop(r3))

\* load_year_data up to its loop.
StartYearData ==
    \E force_reload \in BOOLEAN :
        /\ CanStart("load_year_data", force_reload)
        /\ \E fault \in {"none", "list", "read"} :
            LET r0 == [IdleRun EXCEPT !.variant = "load_year_data",
                                      !.force_reload = force_reload]
                r1 == [r0 EXCEPT !.sessions = get_race_sessions_by_year]
                r2 == [r1 EXCEPT !.loaded_keys = loaded_keys_year]
                r3 == [r2 EXCEPT !.to_load =
                          Resolve(r2.sessions, r2.loaded_keys, force_reload)]
            IN Started(CASE fault = "list" -> [r0 EXCEPT !.pc = "raised"]
                         [] fault = "read" -> [r1 EXCEPT !.pc = "raised"]
                         [] r1.sessions = <<>> -> [r1 EXCEPT !.pc = "returned"]
                         [] OTHER -> EnterLoop(r3))

\* load_historical_data up to its loop: no resolver, a confirmation prompt.
StartHistoricalData ==
    /\ CanStart("load_historical_data", FALSE)
    /\ \E fault \in {"none", "list"} : \E response \in {"yes", "no"} :
        LET r0 == [IdleRun EXCEPT !.variant = "load_historical_data"]
            r1 == [r0 EXCEPT !.sessions = filtered_sessions]
            r2 == [r1 EXCEPT !.to_load = r1.sessions]
        IN Started(CASE fault = "list" -> [r0 EXCEPT !.pc = "raised"]
                     [] response # "yes" -> [r1 EXCEPT !.pc = "returned"]
                     [] r2.to_load = <<>> -> [r2 EXCEPT !.pc = "summary"]
                     [] OTHER -> EnterLoop(r2))

\* One iteration of the loop: extract_session_data, load_all, and the
\* except clause when either raises.
ProcessSession ==
    /\ run.pc = "loop"
    /\ \E fault \in RunFaults :
        LET session_key == run.to_load[run.i].session_key
            data == extract_session_data(session_key, now)
            r == load_all(tables, data, fault)
            error == IF fault.at = "extract" THEN "HTTPStatusError" ELSE r.raised
        IN /\ tables' = IF fault.at = "extract" THEN tables ELSE r.tables
           /\ run' = IF error = "none" THEN OnSessionSuccess(run)
                     ELSE OnSessionError(run, session_key, error)
           /\ trace' = [processed |-> Append(trace.processed, session_key),
                        raised |-> IF error = "none" THEN trace.raised
                                   ELSE Append(trace.raised,
                                          [session_key |-> session_key, error |-> error]),
                        extracts |-> trace.extracts + 1,
                        loads |-> IF fault.at = "extract" THEN trace.loads
                                  ELSE trace.loads + 1,
                        connect_failed |-> trace.connect_failed \/ fault.at = "connect",
                        open |-> IF fault.at # "extract" /\ r.opened /\ ~r.closed
                                 THEN trace.open + 1 ELSE trace.open]
           /\ now' = now + 1
    /\ UNCHANGED <<environment, nruns, prev>>

\* A filter that keeps the sessions that have not ended as well.
CompletedOrNot(sessions, t) == sessions

RECURSIVE Completed(_, _)
\* [s for s in sessions if s.get('date_end') and date_end < now]
Completed(sessions, t) ==
    IF sessions = <<>> THEN <<>>
    ELSE IF Get(Head(sessions), "date_end") # None /\ Head(sessions).date_end < t
         THEN <<Head(sessions)>> \o Completed(Tail(sessions), t)
         ELSE Completed(Tail(sessions), t)

RECURSIVE InsertLatestFirst(_, _)
\* sort(key=date_end, reverse=True): x goes before the sessions that ended
\* earlier and behind the ones that ended at the same time or later.
InsertLatestFirst(s, x) ==
    IF s = <<>> THEN <<x>>
    ELSE IF Get(Head(s), "date_end") < Get(x, "date_end") THEN <<x>> \o s
    ELSE <<Head(s)>> \o InsertLatestFirst(Tail(s), x)

RECURSIVE LatestFirst(_)
LatestFirst(s) ==
    IF s = <<>> THEN <<>>
    ELSE InsertLatestFirst(LatestFirst(SubSeq(s, 1, Len(s) - 1)), s[Len(s)])

\* get_latest_race_session: the completed session that ended last, as a list
\* of one session; the empty list stands for None.
get_latest_race_session(t) ==
    LET completed_sessions == LatestFirst(Completed(ApiListing, t))
    IN IF completed_sessions = <<>> THEN <<>> ELSE <<completed_sessions[1]>>

\* refresh_pipeline up to its extract.
StartRefresh ==
    /\ CanStart("refresh_pipeline", FALSE)
    /\ \E fault \in {"none", "list"} :
        LET r0 == [IdleRun EXCEPT !.variant = "refresh_pipeline"]
            r1 == [r0 EXCEPT !.sessions = ApiListing,
                             !.to_load = get_latest_race_session(now)]
        IN Started(CASE fault = "list" -> [r0 EXCEPT !.pc = "raised"]
                     [] r1.to_load = <<>> -> [r1 EXCEPT !.pc = "returned"]
                     [] OTHER -> [r1 EXCEPT !.pc = "refresh", !.i = 1])

\* Step 2 of refresh_pipeline: extract and load the session; sys.exit(1)
\* when either raises.
RefreshSession ==
    /\ run.pc = "refresh"
    /\ \E fault \in RunFaults :
        LET session_key == run.to_load[1].session_key
            data == extract_session_data(session_key, now)
            r == load_all(tables, data, fault)
            error == IF fault.at = "extract" THEN "HTTPStatusError" ELSE r.raised
        IN /\ tables' = IF fault.at = "extract" THEN tables ELSE r.tables
           /\ run' = IF error = "none"
                     THEN [run EXCEPT !.pc = "dbt", !.i = 2, !.succeeded = 1]
                     ELSE [run EXCEPT !.pc = "exited", !.i = 2]
           /\ trace' = [processed |-> Append(trace.processed, session_key),
                        raised |-> IF error = "none" THEN trace.raised
                                   ELSE Append(trace.raised,
                                          [session_key |-> session_key, error |-> error]),
                        extracts |-> trace.extracts + 1,
                        loads |-> IF fault.at = "extract" THEN trace.loads
                                  ELSE trace.loads + 1,
                        connect_failed |-> trace.connect_failed \/ fault.at = "connect",
                        open |-> IF fault.at # "extract" /\ r.opened /\ ~r.closed
                                 THEN trace.open + 1 ELSE trace.open]
           /\ now' = now + 1
    /\ UNCHANGED <<environment, nruns, prev>>

\* Step 3 of refresh_pipeline: the dbt run, which writes none of the RAW
\* tables; sys.exit(1) when it fails.
RunDbt ==
    /\ run.pc = "dbt"
    /\ \E returncode \in {0, 1} :
        run' = [run EXCEPT !.pc = IF returncode = 0 THEN "done" ELSE "exited"]
    /\ UNCHANGED <<tables, environment, now, nruns, trace, prev>>

Finished == {"returned", "raised", "summary", "exited", "done"}

RowCounts == [t \in TableNames |-> Len(tables[t])]

KeysOf(sessions) == {sessions[i].session_key : i \in 1..Len(sessions)}

\* The process ended; the same orchestrator is started again later.
Rerun ==
    /\ run.pc \in Finished
    /\ nruns < MaxRuns
    /\ prev' = [variant |-> run.variant,
                force_reload |-> run.force_reload,
                raised |-> KeysOf(trace.raised),
                succeeded |-> {trace.processed[i] : i \in 1..Len(trace.processed)}
                              \ KeysOf(trace.raised),
                complete |-> /\ run.to_load # <<>>
                             /\ Len(trace.processed) = Len(run.to_load)
                             /\ trace.raised = <<>>,
                rows |-> RowCounts]
    /\ run' = IdleRun
    /\ UNCHANGED <<tables, environment, now, nruns, trace>>

RECURSIVE Loaded(_, _)
\* The warehouse after the sessions of the set P were loaded at time 0.
Loaded(tabs, P) ==
    IF P = {} THEN tabs
    ELSE LET s == CHOOSE x \in P : \A y \in P : x <= y
         IN Loaded(load_all(tabs, extract_session_data(s, 0), NoFault).tables, P \ {s})

(***************************************************************************)
(* extract_session_data step by step: the four sub-fetches run under       *)
(* asyncio.gather, then every record is stamped with a reading of the wall *)
(* clock, which may tick between two readings.  ex holds                   *)
(*   pc           "idle", "gather", "stamp", "returned" or "raised"        *)
(*   session_key  the argument                                             *)
(*   fetched      per collection: "pending", "ok" or "failed"              *)
(*   data         per collection: the list the sub-fetch returned          *)
(*   ticks        history: ticks of the clock since the call started       *)
(***************************************************************************)
Collections == <<"sessions", "drivers", "laps", "positions">>

CollectionNames == {Collections[i] : i \in 1..Len(Collections)}

NoExtract == [pc |-> "idle", session_key |-> None,
              fetched |-> [c \in CollectionNames |-> "pending"],
              data |-> [c \in CollectionNames |-> <<>>], ticks |-> 0]

\* What GET /sessions, /drivers, /laps and /position serve for a session.
Upstream(c, session_key) ==
    CASE c = "sessions" -> <<UpstreamSession(session_key)>>
      [] c = "drivers" -> <<DriverRecord(1, session_key, 1)>>
      [] c = "laps" -> <<LapRecord(session_key, 1, 1, 1), LapRecord(session_key, 1, 2, 1)>>
      [] c = "positions" -> <<PositionRecord(session_key, 1, 1, 1)>>

\* The four coroutines are created and handed to asyncio.gather.
StartExtract ==
    /\ ex.pc = "idle"
    /\ \E session_key \in SessionKeys :
        ex' = [NoExtract EXCEPT !.pc = "gather", !.session_key = session_key]
    /\ UNCHANGED now

\* A gather that swallows the exception and yields an empty list instead.
OnFetchErrorReturnEmpty(e, c) ==
    [e EXCEPT !.fetched[c] = "failed", !.data[c] = <<>>,
              !.pc = IF \A d \in CollectionNames \ {c} : e.fetched[d] # "pending"
                     THEN "stamp" ELSE "gather"]

\* gather without return_exceptions: the first exception of a sub-fetch is
\* raised to the awaiting extract_session_data.
OnFetchError(e, c) == [e EXCEPT !.fetched[c] = "failed", !.pc = "raised"]

\* response.raise_for_status() passes and the sub-fetch returns response.json().
OnFetchResult(e, c) ==
    [e EXCEPT !.fetched[c] = "ok", !.data[c] = Upstream(c, e.session_key),
              !.pc = IF \A d \in CollectionNames \ {c} : e.fetched[d] # "pending"
                     THEN "stamp" ELSE "gather"]

FetchReturns ==
    /\ ex.pc = "gather"
    /\ \E c \in CollectionNames :
        /\ ex.fetched[c] = "pending"
        /\ ex' = OnFetchResult(ex, c)
    /\ UNCHANGED now

FetchFails ==
    /\ ex.pc = "gather"
    /\ \E c \in CollectionNames :
        /\ ex.fetched[c] = "pending"
        /\ ex' = OnFetchError(ex, c)
    /\ UNCHANGED now

Stamped(record) == "ingested_at" \in DOMAIN record

\* The collections that still hold a record without ingested_at.
Unstamped(e) ==
    {i \in 1..Len(Collections) :
        \E k \in 1..Len(e.data[Collections[i]]) : ~Stamped(e.data[Collections[i]][k])}

\* One pass of the four stamping loops: the next record, in the order
\* sessions, drivers, laps, positions, gets the clock's present reading.
StampRecord ==
    /\ ex.pc = "stamp"
    /\ Unstamped(ex) # {}
    /\ LET i == CHOOSE i \in Unstamped(ex) : \A j \in Unstamped(ex) : i <= j
           c == Collections[i]
           k == CHOOSE k \in 1..Len(ex.data[c]) :
                   /\ ~Stamped(ex.data[c][k])
                   /\ \A m \in 1..(k - 1) : Stamped(ex.data[c][m])
       IN ex' = [ex EXCEPT !.data[c][k] = Stamp(@, now)]
    /\ UNCHANGED now

\* return {"sessions": sessions, ...}
ReturnBundle ==
    /\ ex.pc = "stamp"
    /\ Unstamped(ex) = {}
    /\ ex' = [ex EXCEPT !.pc = "returned"]
    /\ UNCHANGED now

\* The wall clock advances while the call is in progress.
Tick ==
    /\ ex.pc \in {"gather", "stamp"}
    /\ ex.ticks < MaxClock
    /\ now' = now + 1
    /\ ex' = [ex EXCEPT !.ticks = @ + 1]

(***************************************************************************)
(* library/connection.py: the connection manager.  pool holds               *)
(*   queue   self._pool, the ids of the idle connections, oldest first     *)
(*   conns   every connection created so far: whether it is closed and the *)
(*           session parameters it was opened with                         *)
(*   total   self._total_connections                                       *)
(* callers[c] holds the position of thread c in                            *)
(* `with connection_manager.get_connection(...) as conn`, the parameters   *)
(* it asked for, the connection bound to conn (0: none), and how its last  *)
(* block ended.                                                            *)
(***************************************************************************)
Callers == 1..(PoolSize + 1)

ParamNames == {"role", "schema", "database", "warehouse"}

\* The session parameters of the settings.
DefaultParams == [p \in ParamNames |-> 0]

\* The keyword arguments of get_connection: all None, or a schema given as
\* get_loaded_session_keys gives one.
NoArgs == [p \in ParamNames |-> None]
Requests == {NoArgs, [NoArgs EXCEPT !.schema = 1]}

\* database=database or self.settings.snowflake_database, and the like.
Effective(req) == [p \in ParamNames |-> IF req[p] # None THEN req[p] ELSE DefaultParams[p]]

NoPool == [queue |-> <<>>, conns |-> <<>>, total |-> 0]

IdleCaller == [pc |-> "idle", req |-> NoArgs, conn |-> 0, exit |-> "none"]

\* with self._pool_lock: if self._total_connections > 0: self._total_connections -= 1
Decrement(n) == IF n > 0 THEN n - 1 ELSE n

\* _get_pooled_connection up to its return or its call of _create_connection:
\* get_nowait takes the oldest idle connection, which is handed out when it
\* is not closed, whatever parameters were asked for.
GetPooled(c) ==
    /\ callers[c].pc = "idle"
    /\ \E req \in Requests :
        IF pool.queue # <<>>
        THEN LET conn == Head(pool.queue)
             IN /\ pool' = [pool EXCEPT !.queue = Tail(@)]
                /\ callers' = [callers EXCEPT ![c] =
                      IF ~pool.conns[conn].closed
                      THEN [pc |-> "using", req |-> req, conn |-> conn, exit |-> "none"]
                      ELSE [pc |-> "create", req |-> req, conn |-> 0, exit |-> "none"]]
        ELSE /\ pool' = pool
             /\ callers' = [callers EXCEPT ![c] =
                   [pc |-> "create", req |-> req, conn |-> 0, exit |-> "none"]]

\* _create_connection: snowflake.connector.connect with the parameters asked
\* for, then the count under the lock; DatabaseError when the connect fails.
CreateConnection(c) ==
    /\ callers[c].pc = "create"
    /\ Len(pool.conns) < MaxConns
    /\ \E connected \in BOOLEAN :
        IF connected
        THEN /\ pool' = [pool EXCEPT
                  !.conns = Append(@, [closed |-> FALSE,
                                       params |-> Effective(callers[c].req)]),
                  !.total = @ + 1]
             /\ callers' = [callers EXCEPT ![c].pc = "using",
                                           ![c].conn = Len(pool.conns) + 1]
        ELSE /\ pool' = pool
             /\ callers' = [callers EXCEPT ![c].pc = "idle", ![c].req = NoArgs,
                                  ![c].exit = "raised"]

\* The body of the with block closes its connection.
CloseInBlock(c) ==
    /\ callers[c].pc = "using"
    /\ ~pool.conns[callers[c].conn].closed
    /\ pool' = [pool EXCEPT !.conns[callers[c].conn].closed = TRUE]
    /\ UNCHANGED callers

\* After its with block ended normally the caller, which still has the
\* reference, closes the connection that went back to the pool.
CloseAfterBlock(c) ==
    /\ callers[c].pc = "idle"
    /\ callers[c].exit = "normal"
    /\ ~pool.conns[callers[c].conn].closed
    /\ pool' = [pool EXCEPT !.conns[callers[c].conn].closed = TRUE]
    /\ UNCHANGED callers

\* A return that puts the connection on the queue whatever its state.
ReturnAlways(P, conn) == [P EXCEPT !.queue = Append(@, conn)]

\* _return_to_pool: an open connection goes back to the queue, or is closed
\* when the queue is full; a closed one is only counted out.
return_to_pool(P, conn) ==
    IF ~P.conns[conn].closed
    THEN IF Len(P.queue) < PoolSize
         THEN [P EXCEPT !.queue = Append(@, conn)]
         ELSE [P EXCEPT !.conns[conn].closed = TRUE, !.total = @ - 1]
    ELSE [P EXCEPT !.total = Decrement(@)]

\* The with block ends without an exception: the finally clause of
\* get_connection runs _return_to_pool.
ExitBlock(c) ==
    /\ callers[c].pc = "using"
    /\ pool' = return_to_pool(pool, callers[c].conn)
    /\ callers' = [callers EXCEPT ![c].pc = "idle", ![c].req = NoArgs,
                                  ![c].exit = "normal"]

\* The body raises: the except clause closes the connection and counts it
\* out, re-raises, and the finally clause runs _return_to_pool on it.
RaiseInBlock(c) ==
    /\ callers[c].pc = "using"
    /\ LET closed == [pool EXCEPT !.conns[callers[c].conn].closed = TRUE,
                                  !.total = Decrement(@)]
       IN pool' = return_to_pool(closed, callers[c].conn)
    /\ callers' = [callers EXCEPT ![c].pc = "idle", ![c].req = NoArgs,
                                  ![c].exit = "raised"]

RECURSIVE CloseQueued(_, _)
\* The loop of close_all_connections over the queue q.
CloseQueued(P, q) ==
    IF q = <<>> THEN [P EXCEPT !.queue = <<>>]
    ELSE IF ~P.conns[Head(q)].closed
         THEN CloseQueued([P EXCEPT !.conns[Head(q)].closed = TRUE,
                                    !.total = Decrement(@)], Tail(q))
         ELSE CloseQueued(P, Tail(q))

close_all_connections ==
    /\ pool.queue # <<>>
    /\ pool' = CloseQueued(pool, pool.queue)
    /\ UNCHANGED callers

\* The connections that are open.
OpenConns == {i \in 1..Len(pool.conns) : ~pool.conns[i].closed}

(***************************************************************************)
(* app/query_builder.py.  SQL text is a sequence of pieces: the fragments  *)
(* of the f-string templates, with every quote character a piece of its    *)
(* own, and one piece per character of an interpolated value.  A Python    *)
(* int n is [int |-> n], a Python str is [str |-> its characters].         *)
(***************************************************************************)
Quote == "'"

METRIC_SQL ==
    [m \in {"Average Lap Time", "Best Lap Time", "Total Laps", "Average Position",
            "Best Position", "Worst Position", "Total Sessions", "Pit Stop Laps",
            "Average Sector 1", "Average Sector 2", "Average Sector 3",
            "Fastest Laps Count"} |->
        CASE m = "Average Lap Time" -> <<"AVG(l.lap_duration)", " as ", "avg_lap_time">>
          [] m = "Best Lap Time" -> <<"MIN(l.lap_duration)", " as ", "best_lap_time">>
          [] m = "Total Laps" -> <<"COUNT(*)", " as ", "total_laps">>
          [] m = "Average Position" -> <<"AVG(r.final_position)", " as ", "avg_position">>
          [] m = "Best Position" -> <<"MIN(r.final_position)", " as ", "best_position">>
          [] m = "Worst Position" -> <<"MAX(r.final_position)", " as ", "worst_position">>
          [] m = "Total Sessions" ->
               <<"COUNT(DISTINCT l.session_key)", " as ", "total_sessions">>
          [] m = "Pit Stop Laps" ->
               <<"SUM(CASE WHEN rl.is_pit_out_lap THEN 1 ELSE 0 END)", " as ", "pit_stop_laps">>
          [] m = "Average Sector 1" -> <<"AVG(l.segment_1_duration)", " as ", "avg_sector_1">>
          [] m = "Average Sector 2" -> <<"AVG(l.segment_2_duration)", " as ", "avg_sector_2">>
          [] m = "Average Sector 3" -> <<"AVG(l.segment_3_duration)", " as ", "avg_sector_3">>
          [] m = "Fastest Laps Count" ->
               <<"SUM(CASE WHEN l.is_driver_fastest_lap THEN 1 ELSE 0 END)", " as ",
                 "fastest_laps_count">>]

\* (dim_def, group_def); dim_def is one string, or a list of strings.
DIMENSION_SQL ==
    [d \in {"Driver", "Team", "Season", "Circuit", "Laps"} |->
        CASE d = "Driver" -> [dim_def |-> [text |-> "d.full_name as driver"],
                              group_def |-> <<"d.full_name">>]
          [] d = "Team" -> [dim_def |-> [text |-> "d.team_name as team"],
                            group_def |-> <<"d.team_name">>]
          [] d = "Season" -> [dim_def |-> [text |-> "l.year as season"],
                              group_def |-> <<"l.year">>]
          [] d = "Circuit" -> [dim_def |-> [text |-> "l.circuit_short_name as circuit"],
                               group_def |-> <<"l.circuit_short_name">>]
          [] d = "Laps" ->
               [dim_def |-> [list |-> <<"l.lap_number as lap",
                                        "l.lap_position as position_during_lap",
                                        "CASE WHEN rl.is_pit_out_lap THEN 'Yes' ELSE 'No' END as is_pit_lap">>],
                group_def |-> <<"l.lap_number", "l.lap_position", "rl.is_pit_out_lap">>]]

Digits == <<"0", "1", "2", "3", "4", "5", "6", "7", "8", "9">>

RECURSIVE Decimal(_)
\* str(n) of an int n >= 0
Decimal(n) == IF n < 10 THEN <<Digits[n + 1]>>
              ELSE Decimal(n \div 10) \o <<Digits[(n % 10) + 1]>>

\* str(v), and the text an f-string puts for {v}
Str(v) == IF "int" \in DOMAIN v THEN Decimal(v.int) ELSE v.str

RECURSIVE Join(_, _)
\* sep.join(texts), sep and the texts being piece sequences
Join(sep, texts) ==
    IF texts = <<>> THEN <<>>
    ELSE IF Len(texts) = 1 THEN texts[1]
    ELSE texts[1] \o sep \o Join(sep, Tail(texts))

ValueError(message) == [kind |-> "raised", error |-> "ValueError", message |-> message]

\* The season condition of _build_where_conditions.
SeasonCondition(seasons) ==
    IF Len(seasons) = 1
    THEN <<"l.year = ">> \o Str(seasons[1])
    ELSE <<"l.year IN (">>
         \o Join(<<", ">>, [i \in 1..Len(seasons) |-> Str(seasons[i])]) \o <<")">>

\* The condition of a driver, team or circuit filter on `column`; `tail` is
\* what the IN template puts after the list.
NameCondition(column, values, tail) ==
    IF Len(values) = 1
    THEN <<column, " = ", Quote>> \o Str(values[1]) \o <<Quote>>
    ELSE <<column, " IN (", Quote>>
         \o Join(<<Quote, ", ", Quote>>, [i \in 1..Len(values) |-> Str(values[i])])
         \o tail

\* An Optional[List[str]] is NoList (Python's None) or [list |-> the list];
\* a filter that is None or an empty list adds no condition.
NoList == [none |-> TRUE]

Given(values) == "list" \in DOMAIN values /\ values.list # <<>>

build_where_conditions(filters) ==
    <<<<"l.lap_duration > 0">>, SeasonCondition(filters.seasons)>>
    \o (IF Given(filters.drivers)
        THEN <<NameCondition("d.full_name", filters.drivers.list, <<Quote, ")">>)>> ELSE <<>>)
    \o (IF Given(filters.teams)
        THEN <<NameCondition("d.team_name", filters.teams.list, <<Quote, ")">>)>> ELSE <<>>)
    \o (IF Given(filters.circuits)
        THEN <<NameCondition("l.circuit_short_name", filters.circuits.list,
                             <<Quote, ")", Quote>>)>> ELSE <<>>)

Contains(list, x) == \E i \in 1..Len(list) : list[i] = x

\* The join of the raw laps table and the join of the race results.
RawLapsJoin(database) ==
    "LEFT JOIN " \o database \o ".RAW.LAPS rl ON l.session_key = rl.session_key AND l.driver_number = rl.driver_number AND l.lap_number = rl.lap_number"

RaceResultsJoin ==
    "LEFT JOIN fct_race_results r ON l.driver_number = r.driver_number AND l.session_key = r.session_key"

PositionMetrics == {"Average Position", "Best Position", "Worst Position"}

\* Join clauses that do not look at what was selected.
JoinEverything(database, metrics, needs_raw_laps) ==
    <<"JOIN dim_drivers d ON l.driver_number = d.driver_number",
      RawLapsJoin(database), RaceResultsJoin>>

build_join_clauses(database, metrics, needs_raw_laps) ==
    <<"JOIN dim_drivers d ON l.driver_number = d.driver_number">>
    \o (IF needs_raw_laps THEN <<RawLapsJoin(database)>> ELSE <<>>)
    \o (IF \E m \in PositionMetrics : Contains(metrics, m)
        THEN <<RaceResultsJoin>> ELSE <<>>)

RECURSIVE Flatten(_)
Flatten(lists) == IF lists = <<>> THEN <<>> ELSE Head(lists) \o Flatten(Tail(lists))

\* The loop over metrics: the SQL of every metric, or the first unknown
\* name ("": none).
MetricLoop(metrics) ==
    LET bad == {i \in 1..Len(metrics) : metrics[i] \notin DOMAIN METRIC_SQL}
    IN IF bad # {}
       THEN [unknown |-> metrics[CHOOSE i \in bad : \A j \in bad : i <= j],
             metric_sql |-> <<>>]
       ELSE [unknown |-> "",
             metric_sql |-> [i \in 1..Len(metrics) |-> METRIC_SQL[metrics[i]]]]

\* A loop over dimensions that leaves out the names DIMENSION_SQL does not
\* hold.
DimensionLoopSkipUnknown(dimensions) ==
    LET Known(d) == d \in DOMAIN DIMENSION_SQL
        known == SelectSeq(dimensions, Known)
        def(i) == DIMENSION_SQL[known[i]]
    IN [unknown |-> "",
        dim_sql |-> Flatten([i \in 1..Len(known) |->
                       IF "list" \in DOMAIN def(i).dim_def
                       THEN def(i).dim_def.list ELSE <<def(i).dim_def.text>>]),
        group_by |-> Flatten([i \in 1..Len(known) |-> def(i).group_def])]

\* The loop over dimensions: their SQL and group-by columns, or the first
\* unknown name ("": none).
DimensionLoop(dimensions) ==
    LET bad == {i \in 1..Len(dimensions) : dimensions[i] \notin DOMAIN DIMENSION_SQL}
        def(i) == DIMENSION_SQL[dimensions[i]]
    IN IF bad # {}
       THEN [unknown |-> dimensions[CHOOSE i \in bad : \A j \in bad : i <= j],
             dim_sql |-> <<>>, group_by |-> <<>>]
       ELSE [unknown |-> "",
             dim_sql |-> Flatten([i \in 1..Len(dimensions) |->
                            IF "list" \in DOMAIN def(i).dim_def
                            THEN def(i).dim_def.list ELSE <<def(i).dim_def.text>>]),
             group_by |-> Flatten([i \in 1..Len(dimensions) |-> def(i).group_def])]

\* text.split(' as ')[1]
AfterAs(text) == text[(CHOOSE i \in 1..Len(text) :
                         /\ text[i] = " as "
                         /\ \A j \in 1..(i - 1) : text[j] # " as ") + 1]

build_analytics_query(database, metrics, dimensions, filters, limit) ==
    LET m == MetricLoop(metrics)
        d == DimensionLoop(dimensions)
        needs_raw_laps == Contains(metrics, "Pit Stop Laps") \/ Contains(dimensions, "Laps")
    IN CASE metrics = <<>> -> ValueError("At least one metric is required")
         [] dimensions = <<>> -> ValueError("At least one dimension is required")
         [] filters.seasons = <<>> -> ValueError("At least one season is required")
         [] m.unknown # "" -> ValueError("Unknown metric")
         [] d.unknown # "" -> ValueError("Unknown dimension")
         [] OTHER ->
              [kind |-> "query",
               dim_sql |-> d.dim_sql,
               metric_sql |-> m.metric_sql,
               from |-> "fct_lap_times l",
               joins |-> build_join_clauses(database, metrics, needs_raw_laps),
               where |-> build_where_conditions(filters),
               group_by |-> d.group_by,
               order_by |-> AfterAs(m.metric_sql[1]),
               limit |-> limit]

\* The calls made on the query builder.
Chars == {"a", Quote}

TextValues == UNION {[1..n -> Chars] : n \in 1..MaxValueLen}

NameLists ==
    {NoList} \cup {[list |-> l] :
                     l \in UNION {[1..n -> {[str |-> v] : v \in TextValues}] : n \in 0..MaxList}}

SeasonLists == UNION {[1..n -> {[int |-> 1], [int |-> 2], [str |-> <<"a">>]}] : n \in 0..MaxList}

Database == "APEXML_DEV"

MetricLists == UNION {[1..n -> {"Average Lap Time", "Pit Stop Laps", "Best Position",
                                "Top Speed"}] : n \in 0..MaxList}

DimensionLists == UNION {[1..n -> {"Driver", "Laps", "Weather"}] : n \in 0..MaxList}

NoFilters == [seasons |-> <<[int |-> 1]>>, drivers |-> NoList, teams |-> NoList,
              circuits |-> NoList]

NoQuery == [metrics |-> <<>>, dimensions |-> <<>>, filters |-> NoFilters,
            result |-> [kind |-> "none"]]

\* The query built for the given arguments.
Built(metrics, dimensions, filters) ==
    [metrics |-> metrics, dimensions |-> dimensions, filters |-> filters,
     result |-> build_analytics_query(Database, metrics, dimensions, filters, 100)]

\* One call on a builder, with any metrics, dimensions and seasons and no
\* name filter; the builder keeps no state between calls.
BuildQuery ==
    /\ qb.result.kind = "none"
    /\ \E m \in MetricLists, d \in DimensionLists, y \in SeasonLists :
        qb' = Built(m, d, [NoFilters EXCEPT !.seasons = y])

\* One call on a builder, with one name filter on top of a plain query.
BuildFilteredQuery ==
    /\ qb.result.kind = "none"
    /\ \E f \in {"drivers", "teams", "circuits"}, v \in NameLists :
        qb' = Built(<<"Average Lap Time">>, <<"Driver">>, [NoFilters EXCEPT ![f] = v])

(***************************************************************************)
(* library/error_handling.py.  A text is a sequence of words; a class name *)
(* is a sequence of its parts, so that `"Connection" in error_type` is     *)
(* Within(<<"Connection">>, error_type).  An exception is                  *)
(*   type          its class name                                          *)
(*   apex          whether it is an instance of ApexMLError                *)
(*   message       the technical message, str(error)                       *)
(*   user_message  the attribute ApexMLError.__init__ sets                 *)
(***************************************************************************)
\* needle in hay
Within(needle, hay) ==
    \E i \in 0..(Len(hay) - Len(needle)) : SubSeq(hay, i + 1, i + Len(needle)) = needle

NoMessage == [none |-> TRUE]

\* ApexMLError.__init__(message, user_message): user_message or message.
ApexMLError(type, message, user_message) ==
    [type |-> type, apex |-> TRUE, message |-> message,
     user_message |-> IF "text" \in DOMAIN user_message /\ user_message.text # <<>>
                      THEN user_message.text ELSE message]

\* Any other exception raised with one argument.
Exception(type, message) ==
    [type |-> type, apex |-> FALSE, message |-> message, user_message |-> <<>>]

\* str(error)[:100]
Shown == 100

ConnectionText == <<"Database connection error. Please check your network connection and try again. If the problem persists, contact support.">>

QueryText == <<"There was an error executing your query. Please try again with different parameters or contact support if the issue persists.">>

ServiceText == <<"Error communicating with external service. Please try again later.">>

format_user_error(error) ==
    CASE error.apex -> error.user_message
      [] Within(<<"Connection">>, error.type) \/ Within(<<"Timeout">>, error.type)
           -> ConnectionText
      [] Within(<<"SQL">>, error.type) \/ Within(<<"Query">>, error.type) -> QueryText
      [] Within(<<"API">>, error.type) \/ Within(<<"HTTP", "Error">>, error.type)
           -> ServiceText
      [] OTHER -> <<"An unexpected error occurred: ">>
                  \o SubSeq(error.message, 1, Min(Len(error.message), Shown))
                  \o <<". ", "Please try again or contact support if the issue persists.">>

\* The exceptions handed to format_user_error.
ApexTypes == {<<"ApexML", "Error">>, <<"Database", "Error">>, <<"API", "Error">>}

OtherTypes == {<<"Connection", "Error">>, <<"Timeout", "Error">>,
               <<"Programming", "Error">>, <<"SQL", "Alchemy", "Error">>,
               <<"HTTP", "Error">>, <<"HTTP", "Status", "Error">>, <<"Value", "Error">>}

Messages == UNION {[1..n -> {"ORA-1", "10.0.0.1"}] : n \in 1..MaxMessageLen}

UserMessages ==
    {NoMessage, [text |-> <<>>]}
    \cup {[text |-> m] : m \in UNION {[1..n -> {"Sorry"}] : n \in 1..MaxMessageLen}}

NoFormat == [pc |-> "idle", error |-> Exception(<<>>, <<>>), given |-> NoMessage,
             result |-> <<>>]

\* One call of format_user_error on an ApexMLError raised with user message u.
FormatApexError ==
    /\ fmt.pc = "idle"
    /\ \E t \in ApexTypes, m \in Messages, u \in UserMessages :
        LET error == ApexMLError(t, m, u)
        IN fmt' = [pc |-> "returned", error |-> error, given |-> u,
                   result |-> format_user_error(error)]

\* One call of format_user_error on any other exception.
FormatOtherError ==
    /\ fmt.pc = "idle"
    /\ \E t \in OtherTypes, m \in Messages :
        LET error == Exception(t, m)
        IN fmt' = [pc |-> "returned", error |-> error, given |-> NoMessage,
                   result |-> format_user_error(error)]

(***************************************************************************)
(* A function wrapped by retry(max_attempts, delay, backoff, exceptions).  *)
(* rt holds the local variables of the wrapper and a history of the call:  *)
(*   pc              "idle", "attempt", "sleep", "returned" or "raised"    *)
(*   max_attempts    the argument of retry                                 *)
(*   attempt         the loop variable                                     *)
(*   backoff         the argument of retry                                 *)
(*   current_delay, last_exception                                         *)
(*   calls           history: invocations of the wrapped function          *)
(*   log             history: the invocations and sleeps, in order         *)
(*   slept           history: the durations of the sleeps                  *)
(*   result, error   what the wrapper returned or raised                   *)
(*   at              where the wrapper raised: "loop" or "after_loop"      *)
(* An exception is [type, call]: raised by the call-th invocation; its     *)
(* type is within `exceptions` ("retryable") or not ("other").             *)
(***************************************************************************)
NoException == [type |-> "none", call |-> 0]

NoRetry == [pc |-> "idle", max_attempts |-> 0, backoff |-> 0, attempt |-> 0,
            current_delay |-> 0, last_exception |-> NoException, calls |-> 0,
            log |-> <<>>, slept |-> <<>>,
            result |-> None, error |-> NoException, at |-> "none"]

\* The delay and backoff arguments given to retry.
Delays == {0, 1, 2}
Backoffs == {1, 2}

\* for attempt in range(1, max_attempts + 1): the first iteration, or the
\* statement after the loop when the range is empty.  Raising None is a
\* TypeError.
EnterRetryLoop(r) ==
    IF r.max_attempts >= 1 THEN [r EXCEPT !.pc = "attempt", !.attempt = 1]
    ELSE [r EXCEPT !.pc = "raised", !.at = "after_loop",
                   !.error = [type |-> "TypeError", call |-> 0]]

\* The wrapper is called.
CallWrapper ==
    /\ rt.pc = "idle"
    /\ \E n \in -1..MaxAttempts, delay \in Delays, backoff \in Backoffs :
        rt' = EnterRetryLoop([NoRetry EXCEPT !.max_attempts = n, !.backoff = backoff,
                                             !.current_delay = delay])

\* except exceptions as e: re-raise on the last attempt, else go to sleep.
OnRetryable(r, e) ==
    IF r.attempt = r.max_attempts
    THEN [r EXCEPT !.last_exception = e, !.pc = "raised", !.error = e, !.at = "loop"]
    ELSE [r EXCEPT !.last_exception = e, !.pc = "sleep"]

\* One invocation of the wrapped function: it returns a value, raises an
\* exception the except clause catches, or raises another one.
Attempt ==
    /\ rt.pc = "attempt"
    /\ LET r == [rt EXCEPT !.calls = @ + 1, !.log = Append(@, "call")]
       IN \/ \E value \in {1, 2} : rt' = [r EXCEPT !.pc = "returned", !.result = value]
          \/ rt' = OnRetryable(r, [type |-> "retryable", call |-> r.calls])
          \/ rt' = [r EXCEPT !.pc = "raised", !.at = "loop",
                              !.error = [type |-> "other", call |-> r.calls]]

\* time.sleep(current_delay); current_delay *= backoff; next iteration.
Sleep ==
    /\ rt.pc = "sleep"
    /\ rt' = [rt EXCEPT !.log = Append(@, "sleep"),
                        !.slept = Append(@, rt.current_delay),
                        !.current_delay = @ * rt.backoff,
                        !.attempt = @ + 1,
                        !.pc = "attempt"]

SideIdle ==
    /\ ex = NoExtract
    /\ pool = NoPool
    /\ callers = [c \in Callers |-> IdleCaller]
    /\ qb = NoQuery
    /\ fmt = NoFormat
    /\ rt = NoRetry

EngineIdle ==
    /\ call = NoCall
    /\ nloads = 0
    /\ lastApplied = [t \in TableNames |-> <<>>]

OrchIdle ==
    /\ environment = "dev"
    /\ now = NumSessions + 1
    /\ run = IdleRun
    /\ nruns = 0
    /\ trace = NoTrace
    /\ prev = NoPrev

\* The upsert engine called directly, on an empty warehouse.
Init == EngineInit /\ OrchIdle /\ SideIdle

Next ==
    \/ CallLoadSessions /\ UNCHANGED <<orchVars, sideVars>>
    \/ CallLoadDrivers /\ UNCHANGED <<orchVars, sideVars>>
    \/ CallLoadLaps /\ UNCHANGED <<orchVars, sideVars>>
    \/ CallLoadPositions /\ UNCHANGED <<orchVars, sideVars>>
    \/ CallLoadAll /\ UNCHANGED <<orchVars, sideVars>>

Spec == Init /\ [][Next]_vars

\* One run of an orchestrator, in any environment, on a warehouse that
\* holds any set of the upstream sessions already.
InitOrch ==
    /\ EngineIdle
    /\ environment \in Environments
    /\ \E P \in SUBSET SessionKeys : tables = Loaded(EmptyTables, P)
    /\ now = NumSessions + 1
    /\ run = IdleRun
    /\ nruns = 0
    /\ trace = NoTrace
    /\ prev = NoPrev
    /\ SideIdle

NextOrch ==
    \/ StartNewData /\ UNCHANGED <<engineVars, sideVars>>
    \/ StartYearData /\ UNCHANGED <<engineVars, sideVars>>
    \/ StartHistoricalData /\ UNCHANGED <<engineVars, sideVars>>
    \/ ProcessSession /\ UNCHANGED <<engineVars, sideVars>>

SpecOrch == InitOrch /\ [][NextOrch]_vars

\* Consecutive runs of one orchestrator against an unchanged upstream,
\* the first one on an empty warehouse.
InitRerun ==
    /\ EngineInit
    /\ environment \in Environments
    /\ now = NumSessions + 1
    /\ run = IdleRun
    /\ nruns = 0
    /\ trace = NoTrace
    /\ prev = NoPrev
    /\ SideIdle

NextRerun ==
    \/ StartNewData /\ UNCHANGED <<engineVars, sideVars>>
    \/ StartYearData /\ UNCHANGED <<engineVars, sideVars>>
    \/ StartHistoricalData /\ UNCHANGED <<engineVars, sideVars>>
    \/ ProcessSession /\ UNCHANGED <<engineVars, sideVars>>
    \/ StartRefresh /\ UNCHANGED <<engineVars, sideVars>>
    \/ RefreshSession /\ UNCHANGED <<engineVars, sideVars>>
    \/ RunDbt /\ UNCHANGED <<engineVars, sideVars>>
    \/ Rerun /\ UNCHANGED <<engineVars, sideVars>>

SpecRerun == InitRerun /\ [][NextRerun]_vars

\* One run of refresh_pipeline, started at any time of the season: the
\* sessions whose date_end is not before `now` have not ended yet.
InitRefresh ==
    /\ EngineIdle
    /\ environment \in Environments
    /\ \E P \in SUBSET SessionKeys : tables = Loaded(EmptyTables, P)
    /\ now \in 0..(NumSessions + 1)
    /\ run = IdleRun
    /\ nruns = 0
    /\ trace = NoTrace
    /\ prev = NoPrev
    /\ SideIdle

NextRefresh ==
    \/ StartRefresh /\ UNCHANGED <<engineVars, sideVars>>
    \/ RefreshSession /\ UNCHANGED <<engineVars, sideVars>>
    \/ RunDbt /\ UNCHANGED <<engineVars, sideVars>>

SpecRefresh == InitRefresh /\ [][NextRefresh]_vars

\* Calls of extract_session_data against the upstream API.
fetchIdleVars == <<tables, engineVars, environment, run, nruns, trace, prev, poolVars,
                   queryVars, errorVars>>

InitFetch == EngineInit /\ OrchIdle /\ SideIdle

NextFetch ==
    \/ StartExtract /\ UNCHANGED fetchIdleVars
    \/ FetchReturns /\ UNCHANGED fetchIdleVars
    \/ FetchFails /\ UNCHANGED fetchIdleVars
    \/ StampRecord /\ UNCHANGED fetchIdleVars
    \/ ReturnBundle /\ UNCHANGED fetchIdleVars
    \/ Tick /\ UNCHANGED fetchIdleVars

SpecFetch == InitFetch /\ [][NextFetch]_vars

\* Threads taking connections from the connection manager.
poolIdleVars == <<tables, engineVars, orchVars, fetchVars, queryVars, errorVars>>

InitPool == EngineInit /\ OrchIdle /\ SideIdle

NextPool ==
    \/ \E c \in Callers : GetPooled(c) /\ UNCHANGED poolIdleVars
    \/ \E c \in Callers : CreateConnection(c) /\ UNCHANGED poolIdleVars
    \/ \E c \in Callers : CloseInBlock(c) /\ UNCHANGED poolIdleVars
    \/ \E c \in Callers : ExitBlock(c) /\ UNCHANGED poolIdleVars
    \/ \E c \in Callers : RaiseInBlock(c) /\ UNCHANGED poolIdleVars
    \/ \E c \in Callers : CloseAfterBlock(c) /\ UNCHANGED poolIdleVars
    \/ close_all_connections /\ UNCHANGED poolIdleVars

SpecPool == InitPool /\ [][NextPool]_vars

\* Calls of build_analytics_query.
InitQuery == EngineInit /\ OrchIdle /\ SideIdle

queryIdleVars == <<tables, engineVars, orchVars, fetchVars, poolVars, errorVars>>

NextQuery ==
    \/ BuildQuery /\ UNCHANGED queryIdleVars
    \/ BuildFilteredQuery /\ UNCHANGED queryIdleVars

SpecQuery == InitQuery /\ [][NextQuery]_vars

\* Calls of format_user_error.
formatIdleVars == <<tables, engineVars, orchVars, fetchVars, poolVars, queryVars, rt>>

InitFormat == EngineInit /\ OrchIdle /\ SideIdle

NextFormat ==
    \/ FormatApexError /\ UNCHANGED formatIdleVars
    \/ FormatOtherError /\ UNCHANGED formatIdleVars

SpecFormat == InitFormat /\ [][NextFormat]_vars

\* Calls of a function wrapped by retry.
retryIdleVars == <<tables, engineVars, orchVars, fetchVars, poolVars, queryVars, fmt>>

InitRetry == EngineInit /\ OrchIdle /\ SideIdle

NextRetry ==
    \/ CallWrapper /\ UNCHANGED retryIdleVars
    \/ Attempt /\ UNCHANGED retryIdleVars
    \/ Sleep /\ UNCHANGED retryIdleVars

SpecRetry == InitRetry /\ [][NextRetry]_vars

(***************************************************************************)
(* Claims about the upsert engine, checked under Spec.                     *)
(***************************************************************************)
LoaderNames == {"load_sessions", "load_drivers", "load_laps", "load_positions"}

\* C1: running load_all(B) a second time, right after load_all(B) completed,
\* leaves every table with the rows, row count and field values it had
\* after the first run.
C1_LoadAllIdempotent ==
    [][(/\ call.fn = "load_all" /\ call.raised = "none"
        /\ nloads' = nloads + 1
        /\ call'.fn = "load_all" /\ call'.raised = "none"
        /\ call'.data = call.data)
       => tables' = tables]_vars

\* C2: no table holds two rows with the same natural key.
C2_KeyUniqueness ==
    \A t \in TableNames : \A i, j \in 1..Len(tables[t]) :
        i # j => NaturalKey(t, tables[t][i]) # NaturalKey(t, tables[t][j])

\* C3: for every natural key that was merged into a table there is exactly
\* one row, and every column of it has the value of the record merged last
\* under that key.
C3_LastWriteWins ==
    \A t \in TableNames : \A key \in DOMAIN lastApplied[t] :
        LET rows == {i \in 1..Len(tables[t]) : NaturalKey(t, tables[t][i]) = key}
        IN /\ Cardinality(rows) = 1
           /\ \A i \in rows : tables[t][i] = lastApplied[t][key]

\* C10: when the warehouse fails the k-th statement of a loader call, k > 1,
\* the table is as it was before the call: none of records 1..k-1 is visible.
C10_BatchAtomic ==
    [][(/\ nloads' = nloads + 1
        /\ call'.fn \in LoaderNames
        /\ call'.raised = "ProgrammingError"
        /\ call'.count >= 1)
       => tables'[call'.at] = tables[call'.at]]_vars

\* C11: a loader handed a record that lacks a field of its natural key
\* raises, and raises before that record is executed: no row is written
\* for it.
C11_MalformedRecordsRaise ==
    [][(/\ nloads' = nloads + 1
        /\ call'.fn \in LoaderNames
        /\ call'.lacking > 0)
       => /\ call'.raised # "none"
          /\ call'.count < call'.lacking]_vars

(***************************************************************************)
(* Claims about the orchestrators.                                         *)
(***************************************************************************)
KeySeq(sessions) == [i \in 1..Len(sessions) |-> sessions[i].session_key]

\* The session keys of which table t holds a row.
Present(t) == {tables[t][i].session_key : i \in 1..Len(tables[t])}

\* C4: in load_new_data, load_year_data and load_historical_data a session
\* whose extract or load raises does not end the run: the loop goes through
\* every session of to_load in order, the run raises only before the loop,
\* and at the summary every session that did not raise has its rows in the
\* four tables.
C4_FailureIsolation ==
    run.variant \in Variants =>
        /\ run.pc = "loop" =>
             /\ run.i \in 1..Len(run.to_load)
             /\ trace.processed = SubSeq(KeySeq(run.to_load), 1, run.i - 1)
        /\ run.pc = "summary" =>
             /\ trace.processed = KeySeq(run.to_load)
             /\ \A s \in KeysOf(run.to_load) \ KeysOf(trace.raised) :
                    \A t \in TableNames : s \in Present(t)
        /\ run.pc = "raised" => trace.processed = <<>>

\* Three sessions, the second fails at extraction: the run reaches its
\* summary with sessions 1 and 3 in the warehouse and session 2 not.
C4_Witness ==
    /\ run.variant \in Variants
    /\ run.pc = "summary"
    /\ KeySeq(run.to_load) = <<1, 2, 3>>
    /\ trace.raised = <<[session_key |-> 2, error |-> "HTTPStatusError"]>>
    /\ Present("SESSIONS") = {1, 3}
    /\ Present("LAPS") = {1, 3}

\* C5: at the summary of load_new_data, load_year_data and
\* load_historical_data, attempted is the number of selected sessions,
\* succeeded + failed = attempted, and the failed list holds exactly the
\* keys whose extract or load raised, each with its error string.
C5_SummaryAccounting ==
    (run.variant \in Variants /\ run.pc = "summary") =>
        LET attempted == Len(run.to_load)
            failed == IF run.variant = "load_new_data"
                      THEN Len(run.failed_sessions) ELSE run.error_count
        IN /\ attempted = Len(trace.processed)
           /\ run.succeeded + failed = attempted
           /\ run.failed_sessions = trace.raised

\* C7: load_new_data and load_year_data select exactly the sessions of the
\* upstream list U whose key is not among the keys P read from SESSIONS, in
\* the order of U: none when P covers U, all of U when P is empty, and all
\* of U whatever P is under force_reload.
C7_ChangeSet ==
    (run.variant \in {"load_new_data", "load_year_data"}
       /\ run.pc \in {"loop", "summary", "returned"}) =>
        LET U == run.sessions
            P == run.loaded_keys
            sel == run.to_load
            Pos(x) == CHOOSE j \in 1..Len(U) : U[j] = x
        IN /\ \A i \in 1..Len(sel) : \E j \in 1..Len(U) : sel[i] = U[j]
           /\ \A i, j \in 1..Len(sel) : i < j => Pos(sel[i]) < Pos(sel[j])
           /\ KeysOf(sel) = IF run.force_reload THEN KeysOf(U) ELSE KeysOf(U) \ P
           /\ (~run.force_reload /\ KeysOf(U) \subseteq P) => sel = <<>>
           /\ P = {} => sel = U
           /\ run.force_reload => sel = U

\* The warehouse holds session 2 only: sessions 1 and 3 are selected, in
\* that order.
C7_Witness ==
    /\ run.variant \in {"load_new_data", "load_year_data"}
    /\ ~run.force_reload
    /\ run.pc = "loop"
    /\ KeySeq(run.sessions) = <<1, 2, 3>>
    /\ run.loaded_keys = {2}
    /\ KeySeq(run.to_load) = <<1, 3>>

\* C9: when the connect inside load_all fails while an orchestrator is
\* processing a session, the whole run stops: it raises instead of counting
\* the session as failed and going on.
C9_ConnectErrorAborts ==
    trace.connect_failed => run.pc = "raised"

(***************************************************************************)
(* Claims about consecutive runs.                                          *)
(***************************************************************************)
\* C6: a session whose processing raised in one run of load_new_data or
\* load_year_data, at extraction or anywhere inside load_all, is selected
\* again by the next run; without force_reload the next run selects exactly
\* the sessions the previous run did not load.
C6_RetryAfterPartialFailure ==
    (nruns >= 2 /\ run.variant \in {"load_new_data", "load_year_data"}
       /\ run.pc \in {"loop", "summary", "returned"}) =>
        /\ prev.raised \subseteq KeysOf(run.to_load)
        /\ ~run.force_reload =>
              KeysOf(run.to_load) = KeysOf(run.sessions) \ prev.succeeded

\* C8: after a run in which every session succeeded, a second run of the
\* same orchestrator adds no row to any table, and a run with a change-set
\* resolver finds to_load empty and returns having called neither
\* extract_session_data nor load_all.
C8_EndToEndIdempotent ==
    (nruns >= 2 /\ prev.complete /\ run.pc \notin {"idle", "raised"}) =>
        /\ RowCounts = prev.rows
        /\ (run.variant \in {"load_new_data", "load_year_data"} /\ ~run.force_reload) =>
              /\ run.pc = "returned"
              /\ run.to_load = <<>>
              /\ trace.extracts = 0
              /\ trace.loads = 0

(***************************************************************************)
(* Claims about the source fetcher.                                        *)
(***************************************************************************)
\* C12: when one of the four sub-fetches fails, extract_session_data raises
\* and returns no bundle; it stamps and returns a bundle only when all four
\* collections were fetched.
C12_FetchFailFast ==
    /\ (\E c \in CollectionNames : ex.fetched[c] = "failed") => ex.pc = "raised"
    /\ ex.pc \in {"stamp", "returned"} =>
          \A c \in CollectionNames : ex.fetched[c] = "ok" /\ ex.data[c] # <<>>

\* The sub-fetch of the laps fails after the other three returned.
C12_Witness ==
    /\ ex.pc = "raised"
    /\ ex.fetched = [c \in CollectionNames |-> IF c = "laps" THEN "failed" ELSE "ok"]

\* The ingested_at values of the records of the bundle in ex.
Stamps(e) ==
    UNION {{e.data[c][k].ingested_at : k \in 1..Len(e.data[c])} : c \in CollectionNames}

\* C13: every record of a returned bundle carries ingested_at, all records
\* of the bundle carry the same timestamp, and no record is stamped while a
\* sub-fetch is still pending.
C13_IngestionStamping ==
    /\ ex.pc = "returned" =>
          /\ \A c \in CollectionNames : \A k \in 1..Len(ex.data[c]) : Stamped(ex.data[c][k])
          /\ Cardinality(Stamps(ex)) = 1
    /\ (\E c \in CollectionNames : \E k \in 1..Len(ex.data[c]) : Stamped(ex.data[c][k]))
          => \A c \in CollectionNames : ex.fetched[c] = "ok"

\* C14: every load_all call closes the connection it opened, whether the
\* loads succeeded or a statement raised: no connection opened by an
\* iteration of an orchestrator is open when the next one starts.
C14_NoConnectionLeak ==
    trace.open = 0

\* An iteration whose load_all raised at the resume statement and one whose
\* load_all raised inside load_laps are behind, and the next one starts.
C14_Witness ==
    /\ run.pc = "loop"
    /\ run.i = 3
    /\ trace.loads = 2
    /\ Len(trace.raised) = 2
    /\ \A i \in 1..2 : trace.raised[i].error = "ProgrammingError"
    /\ Present("LAPS") # {}
    /\ trace.open = 0

(***************************************************************************)
(* Claims about the connection manager.                                    *)
(***************************************************************************)
\* C15: under any interleaving of get_connection callers, the connections
\* created by the manager that are open at the same time never number more
\* than pool_size.
C15_BoundedPool ==
    Cardinality(OpenConns) <= PoolSize

\* C16: a caller inside its with block holds a connection whose role,
\* schema, database and warehouse are the ones it asked for, whatever
\* connections earlier callers returned to the pool.
C16_RequestedParameters ==
    \A c \in Callers :
        callers[c].pc = "using" =>
            pool.conns[callers[c].conn].params = Effective(callers[c].req)

\* C17: after a with block ended without an exception, the connection it
\* was given is closed.
C17_ClosedOnExit ==
    \A c \in Callers :
        (callers[c].pc = "idle" /\ callers[c].exit = "normal") =>
            pool.conns[callers[c].conn].closed

(***************************************************************************)
(* Claims about the query builder.                                         *)
(***************************************************************************)
Names(list) == {list[i] : i \in 1..Len(list)}

\* The inputs build_analytics_query must refuse.
Invalid(q) ==
    \/ q.metrics = <<>>
    \/ q.dimensions = <<>>
    \/ q.filters.seasons = <<>>
    \/ ~(Names(q.metrics) \subseteq DOMAIN METRIC_SQL)
    \/ ~(Names(q.dimensions) \subseteq DOMAIN DIMENSION_SQL)

\* C18: build_analytics_query raises ValueError and returns no SQL when
\* metrics, dimensions or filters.seasons is empty or when any metric or
\* dimension name is unknown, even if the other names are valid; a query it
\* returns holds the SQL of every metric asked for.
C18_Validation ==
    qb.result.kind # "none" =>
        /\ Invalid(qb) => qb.result.kind = "raised" /\ qb.result.error = "ValueError"
        /\ qb.result.kind = "query" =>
              /\ ~Invalid(qb)
              /\ qb.result.metric_sql = [i \in 1..Len(qb.metrics) |-> METRIC_SQL[qb.metrics[i]]]

\* A valid metric next to an unknown one: the call raises.
C18_Witness ==
    /\ qb.metrics = <<"Average Lap Time", "Top Speed">>
    /\ qb.dimensions = <<"Driver">>
    /\ qb.filters.seasons = <<[int |-> 1]>>
    /\ qb.result = ValueError("Unknown metric")

RECURSIVE Lex(_, _, _)
\* The SQL lexer on the pieces of a condition: a quote opens a string
\* literal, two quotes in a row inside a literal stand for one quote
\* character, and a single quote ends the literal.  Yields the literals of
\* the text, the pieces outside of them, and whether the text ends inside
\* a literal.
Lex(text, inside, acc) ==
    IF text = <<>> THEN [acc EXCEPT !.open = inside]
    ELSE IF ~inside
    THEN IF Head(text) = Quote
         THEN Lex(Tail(text), TRUE, [acc EXCEPT !.literals = Append(@, <<>>)])
         ELSE Lex(Tail(text), FALSE, [acc EXCEPT !.outside = Append(@, Head(text))])
    ELSE IF Head(text) # Quote
    THEN Lex(Tail(text), TRUE,
             [acc EXCEPT !.literals[Len(acc.literals)] = Append(@, Head(text))])
    ELSE IF Len(text) >= 2 /\ text[2] = Quote
    THEN Lex(Tail(Tail(text)), TRUE,
             [acc EXCEPT !.literals[Len(acc.literals)] = Append(@, Quote)])
    ELSE Lex(Tail(text), FALSE, acc)

Lexed(text) == Lex(text, FALSE, [literals |-> <<>>, outside |-> <<>>, open |-> FALSE])

\* The values of a name filter are the string literals of its condition,
\* one literal each, and nothing of a value lies outside a literal.
InsideLiterals(condition, values) ==
    LET l == Lexed(condition)
    IN /\ ~l.open
       /\ l.literals = [i \in 1..Len(values) |-> values[i].str]
       /\ \A i \in 1..Len(l.outside) : l.outside[i] \notin Chars

\* The where condition of the filter named f, <<>> when f adds none.
ConditionOf(q, f) ==
    LET order == <<"drivers", "teams", "circuits">>
        before == {i \in 1..3 : Given(q.filters[order[i]])
                                /\ \E j \in 1..3 : order[j] = f /\ i < j}
    IN IF Given(q.filters[f]) THEN q.result.where[3 + Cardinality(before)] ELSE <<>>

\* C19: in a query build_analytics_query returns, every driver, team and
\* circuit value lies inside one string literal of its condition, and
\* every season is an integer.
C19_InjectionSafety ==
    qb.result.kind = "query" =>
        /\ \A i \in 1..Len(qb.filters.seasons) : "int" \in DOMAIN qb.filters.seasons[i]
        /\ \A f \in {"drivers", "teams", "circuits"} :
              Given(qb.filters[f]) =>
                  InsideLiterals(ConditionOf(qb, f), qb.filters[f].list)

\* C20: a seasons filter with one distinct value renders as `l.year = v`,
\* one with two or more distinct values as `l.year IN (...)`; repeating a
\* value does not change the predicate.
C20_EqualityVersusIn ==
    qb.result.kind = "query" =>
        LET seasons == qb.filters.seasons
        IN IF Cardinality(Names(seasons)) = 1
           THEN qb.result.where[2] = <<"l.year = ">> \o Str(seasons[1])
           ELSE qb.result.where[2][1] = "l.year IN ("

\* C21: the returned SQL holds the race-results join exactly when a position
\* metric is selected and the raw-laps join exactly when the Pit Stop Laps
\* metric or the Laps dimension is selected; Average Lap Time by Driver has
\* neither.
C21_ConditionalJoins ==
    qb.result.kind = "query" =>
        /\ Contains(qb.result.joins, RaceResultsJoin)
              <=> (\E m \in PositionMetrics : m \in Names(qb.metrics))
        /\ Contains(qb.result.joins, RawLapsJoin(Database))
              <=> ("Pit Stop Laps" \in Names(qb.metrics) \/ "Laps" \in Names(qb.dimensions))
        /\ (qb.metrics = <<"Average Lap Time">> /\ qb.dimensions = <<"Driver">>)
              => Len(qb.result.joins) = 1

C21_Witness ==
    /\ qb.result.kind = "query"
    /\ qb.metrics = <<"Average Lap Time", "Pit Stop Laps">>
    /\ qb.dimensions = <<"Driver">>
    /\ Contains(qb.result.joins, RawLapsJoin(Database))
    /\ ~Contains(qb.result.joins, RaceResultsJoin)

\* The upstream sessions that ended before time t.
Ended(t) == {k \in SessionKeys : UpstreamSession(k).date_end < t}

\* get_latest_race_session returned, at time t, the session in `result`:
\* the ended session with the latest date_end, or none when none has ended.
Selected(result, t) ==
    IF Ended(t) = {} THEN result = <<>>
    ELSE /\ Len(result) = 1
         /\ result[1].session_key \in Ended(t)
         /\ result[1] = UpstreamSession(result[1].session_key)
         /\ \A k \in Ended(t) : UpstreamSession(k).date_end <= result[1].date_end

ExtractRaised(t) ==
    t.raised # <<>> /\ t.raised[Len(t.raised)].error = "HTTPStatusError"

C23_OnlyUserMessage ==
    fmt.pc = "returned" =>
        /\ ~Within(fmt.error.message, fmt.result)
        /\ fmt.error.apex => "text" \in DOMAIN fmt.given /\ fmt.result = fmt.given.text
        /\ ~fmt.error.apex => fmt.result \in {ConnectionText, QueryText, ServiceText}

\* The invocations and sleeps of a call: one sleep between two consecutive
\* invocations and nothing else.
Alternating(log) ==
    \A i \in 1..Len(log) : log[i] = IF i % 2 = 1 THEN "call" ELSE "sleep"

\* C24: the wrapped function is never invoked more than max_attempts times;
\* the wrapper returns the value of the first invocation that returns,
\* re-raises the retryable exception of invocation number max_attempts, or
\* lets any other exception out of the invocation that raised it; exactly
\* one sleep separates two consecutive invocations and none follows the
\* last one.
C24_BoundedRetry ==
    /\ rt.pc # "idle" => rt.calls <= rt.max_attempts
    /\ rt.pc \in {"returned", "raised"} =>
          /\ Alternating(rt.log)
          /\ Len(rt.log) = 2 * rt.calls - 1
          /\ \/ rt.pc = "returned" /\ rt.result # None
             \/ /\ rt.pc = "raised"
                /\ rt.error = [type |-> "retryable", call |-> rt.max_attempts]
                /\ rt.calls = rt.max_attempts
             \/ /\ rt.pc = "raised"
                /\ rt.error = [type |-> "other", call |-> rt.calls]

\* C28: for every max_attempts the wrapper invokes the function at least
\* once and returns or raises from inside the loop; it never executes the
\* statement after the loop with last_exception still None.
C28_AfterLoopUnreachable ==
    rt.pc \in {"returned", "raised"} =>
        /\ rt.calls >= 1
        /\ rt.at # "after_loop"
        /\ rt.error.type # "TypeError"

\* The rows x and y are the same row of table t: they agree, under SQL
\* equality, on every column of the natural key.
SameRow(t, x, y) ==
    \A i \in 1..Len(KeyColumns(t)) : SqlEq(x[KeyColumns(t)[i]], y[KeyColumns(t)[i]])

\* C25: whatever the order in which extracted bundles are loaded, the
\* ingested_at of a row never decreases: a load that touches a row leaves it
\* with an ingested_at at least as late as the one it had.
C25_MonotonicIngestedAt ==
    [][\A t \in TableNames : \A i \in 1..Len(tables[t]) : \A j \in 1..Len(tables'[t]) :
          (/\ SameRow(t, tables[t][i], tables'[t][j])
           /\ tables[t][i].ingested_at # None
           /\ tables'[t][j].ingested_at # None)
            => tables'[t][j].ingested_at >= tables[t][i].ingested_at]_vars

\* C26: in every environment the resolver of load_new_data reads the table
\* load_all writes: a session the previous run loaded successfully is among
\* the loaded keys the next run reads.
C26_ResolverReadsWhereEngineWrites ==
    (/\ run.variant = "load_new_data"
     /\ prev.variant = "load_new_data"
     /\ run.pc \in {"loop", "summary", "returned"})
        => prev.succeeded \subseteq run.loaded_keys

FilterColumn(f) ==
    CASE f = "drivers" -> "d.full_name"
      [] f = "teams" -> "d.team_name"
      [] f = "circuits" -> "l.circuit_short_name"

\* The number of quote characters of a text.
Quotes(text) == Cardinality({i \in 1..Len(text) : text[i] = Quote})

\* C27: a drivers, teams or circuits filter with two or more values renders
\* as <column> IN ('v1', 'v2', ...), closed by one quote and one parenthesis
\* with nothing after it, the same for the three filters; for values that
\* hold no quote the quotes of the condition are balanced.
C27_MultiValueFilters ==
    qb.result.kind = "query" =>
        \A f \in {"drivers", "teams", "circuits"} :
            (Given(qb.filters[f]) /\ Len(qb.filters[f].list) >= 2) =>
                LET values == qb.filters[f].list
                    condition == ConditionOf(qb, f)
                IN /\ condition =
                        <<FilterColumn(f), " IN (", Quote>>
                        \o Join(<<Quote, ", ", Quote>>,
                                [i \in 1..Len(values) |-> values[i].str])
                        \o <<Quote, ")">>
                   /\ (\A i \in 1..Len(values) : ~Contains(values[i].str, Quote))
                        => Quotes(condition) % 2 = 0

\* The connections that callers hold inside a with block.
CheckedOut == {c \in Callers : callers[c].pc = "using"}

\* C29: _total_connections equals the number of connections that are
\* checked out or sitting in the pool, and active_connections of
\* get_pool_status is never negative.
C29_ConnectionAccounting ==
    /\ pool.total = Cardinality(CheckedOut) + Len(pool.queue)
    /\ pool.total - Len(pool.queue) >= 0

\* The places a connection is in: the callers holding it and its positions
\* in the pool.
Holders(P, cs, conn) == {c \in Callers : cs[c].pc = "using" /\ cs[c].conn = conn}
Slots(P, conn) == {i \in 1..Len(P.queue) : P.queue[i] = conn}

====
